---- MODULE Spec2Model ----
(***************************************************************************)
(* Evaluation orchestration and streaming of GlassScore for one session:   *)
(* the /evaluate/start route, main_evaluator.start_evaluation with its     *)
(* fan-in loop process_tasks, the jobs it spawns, the /evaluate/stream     *)
(* consumer (event_generator) and SessionService.add_evidence.             *)
(*                                                                         *)
(* The persisted fields of the session (is_evaluating, pending_tasks,      *)
(* text_content_dict, evidence_list) live in the session store;            *)
(* SessionService.get_session deserialises a fresh AppSession from it, so  *)
(* every caller works on its own copy.  The event queue is the one field   *)
(* that is not serialised.                                                 *)
(***************************************************************************)
EXTENDS Integers, Sequences, FiniteSets, TLC

\* range(5) in generate_web_tasks
NumWebSlots == 5
\* largest number of snippets stored in the session
MaxSnippets == 1
\* longest evidence list a text or web job returns
MaxItems == 1
\* number of /evaluate/start requests that are accepted
MaxStarts == 2
\* number of /evaluate/start requests that are rejected
MaxRejects == 1

Runs == 1..MaxStarts
Kinds == {"ml", "web", "llm"}

VARIABLES
    is_evaluating,      \* store: AppSession.is_evaluating
    pending_tasks,      \* store: AppSession.pending_tasks
    text_content_dict,  \* store: keys of AppSession.text_content_dict
    evidence_list,      \* store: AppSession.evidence_list (the ledger)
    evidence_queue,     \* AppSession.evidence_queue (asyncio.Queue)
    npushed,            \* number of records put on the queue so far
    stream,             \* records yielded by event_generator, in order
    budget,             \* /evaluate/start requests still to be accepted
    rejected,           \* /evaluate/start requests answered 400
    pc,                 \* per run: position of start_evaluation / process_tasks
    session,            \* per run: the AppSession copy read at line 14
    running,            \* per run: tasks of all_tasks not yet completed, by kind
    done_q,             \* per run: completed futures as_completed has not yet yielded
    cur,                \* per run: evidence of the current future still to push
    last_taken,         \* per run: completion index of the future awaited last
    raised,             \* per run: futures awaited so far that raised
    yielded,            \* per run: evidence items of the futures taken so far
    consumer,           \* the /evaluate/stream connection and its event_generator
    reeval,             \* per invalidation call: the re-evaluation task
    notfound,           \* /evaluate/evidence/update requests answered 404
    queries,            \* result of the query_task of generate_web_tasks
    slot_out,           \* per web slot: what _execute_web_task returned
    gen_calls,          \* the runs of _generate_queries so far: the path each took
    slot_seen,          \* per web slot: the query list the slot got from query_task
    web,                \* per web_evaluate call: its position and what it did
    verified,           \* two calls of _verify_search_results on the same input
    ml,                 \* a call of ml_evaluate_loan
    llm,                \* a call of llm_evaluate_loan and its upstream task
    backend,            \* the session store: SQLite wrapper or Postgres pool
    appender,           \* per stream connection: its add_evidence call
    attaches,           \* completed calls of save_text_content and of the /session routes
    db                  \* the pool global, the wrapper's connection and its callers

vars == <<is_evaluating, pending_tasks, text_content_dict, evidence_list,
          evidence_queue, npushed, stream, budget, rejected, pc, session,
          running, done_q, cur, last_taken, raised, yielded, consumer, reeval,
          notfound, queries, slot_out, gen_calls, slot_seen, web, verified,
          ml, llm, backend, appender, attaches, db>>

\* Variables of the re-evaluation engine and of the web slots.
reevalVars == <<reeval, notfound>>

webVars == <<queries, slot_out>>

\* Variables of the query task, of web_evaluate and of the two other jobs.
jobVars == <<gen_calls, slot_seen, web, verified, ml, llm>>

\* Variables of the writers of the session row.
storeVars == <<backend, appender, attaches, db>>

-----------------------------------------------------------------------------
(* EvaluationEvidence, models/session.py *)

RequiredFields == {"score", "description", "citation", "source"}

ValidationError == [raised |-> "ValidationError"]

\* text_content_key = None
NoKey == 0

\* The pydantic constructor: a field without a default must be given.
EvaluationEvidence(given) ==
    IF RequiredFields \subseteq DOMAIN given
    THEN [id         |-> 0,
          score      |-> given.score,
          description |-> given.description,
          citation   |-> given.citation,
          source     |-> given.source,
          valid      |-> TRUE,
          invalidate_reason |-> <<>>,
          event_type |-> IF "event_type" \in DOMAIN given
                         THEN given.event_type ELSE "evidence",
          text_content_key |-> IF "text_content_key" \in DOMAIN given
                               THEN given.text_content_key ELSE NoKey]
    ELSE ValidationError

IsEvidence(x) == "event_type" \in DOMAIN x

\* Bookkeeping carried with a record: the run that pushed it and the kind of
\* the job it came from.
Tag(ev, r, kind) == ev @@ [run |-> r, kind |-> kind]

StartEvent ==
    EvaluationEvidence([score |-> 0, description |-> "Evaluation started",
                        citation |-> "", source |-> "System",
                        event_type |-> "evaluation_start"])

CompletionEvent ==
    EvaluationEvidence([score |-> 0, description |-> "Initial evaluation completed",
                        citation |-> "", source |-> "System",
                        event_type |-> "evaluation_complete"])

\* process_tasks, except branch: no citation is given.
ErrorEvidence ==
    EvaluationEvidence([score |-> 0, description |-> "Error in evaluation task",
                        source |-> "System Error"])

JobSource(kind) ==
    CASE kind = "ml"  -> "Machine Learning Model"
      [] kind = "web" -> "web_search"
      [] kind = "llm" -> "user_upload"

JobEvidence(kind) ==
    EvaluationEvidence([score |-> 0, description |-> "finding", citation |-> "",
                        source |-> JobSource(kind)])

-----------------------------------------------------------------------------
(* SessionService *)

\* get_session: a fresh AppSession built from the stored row.
GetSession ==
    [is_evaluating     |-> is_evaluating,
     pending_tasks     |-> pending_tasks,
     text_content_dict |-> text_content_dict]

\* session_service.start_evaluation
SvcStartEvaluation == TRUE

\* session_service.finish_evaluation
SvcFinishEvaluation == [is_evaluating |-> FALSE, pending_tasks |-> 0]

\* session_service.push_evidence_to_stream
PushEvidenceToStream(q, ev) == Append(q, ev @@ [pno |-> npushed + 1])

\* add_evidence: evidence_list.append(evidence); the item is stored as it is.
AddEvidence(ledger, ev) == Append(ledger, ev)

-----------------------------------------------------------------------------
\* A stored session on which no run was started yet: starts requests will be
\* accepted, the ledger is one of ledgers.
InitSession(starts, ledgers) ==
    /\ is_evaluating = FALSE
    /\ pending_tasks = 0
    /\ text_content_dict \in {1..n : n \in 0..MaxSnippets}
    /\ evidence_list \in ledgers
    /\ evidence_queue = <<>>
    /\ npushed = 0
    /\ stream = <<>>
    /\ budget = starts
    /\ rejected = 0
    /\ pc = [r \in Runs |-> "none"]
    /\ session = [r \in Runs |-> [is_evaluating |-> FALSE, pending_tasks |-> 0,
                                   text_content_dict |-> {}]]
    /\ running = [r \in Runs |-> [k \in Kinds |-> 0]]
    /\ done_q = [r \in Runs |-> <<>>]
    /\ cur = [r \in Runs |-> <<>>]
    /\ last_taken = [r \in Runs |-> 0]
    /\ raised = [r \in Runs |-> 0]
    /\ yielded = [r \in Runs |-> 0]

\* No invalidation call is made.
ReevalIdle ==
    /\ reeval = <<>>
    /\ notfound = 0

\* The web slots are looked at through the tasks of all_tasks only.
WebIdle ==
    /\ queries = <<>>
    /\ slot_out = <<>>

\* No job is looked at on its own.
JobsIdle ==
    /\ gen_calls = <<>>
    /\ slot_seen = <<>>
    /\ web = <<>>
    /\ verified = <<>>
    /\ ml = <<>>
    /\ llm = <<>>

\* No web_evaluate call, ModelScorer or TextAnalyzer is looked at on its own.
CallsIdle ==
    /\ web = <<>>
    /\ verified = <<>>
    /\ ml = <<>>
    /\ llm = <<>>

\* DATABASE_URL is not set: the in-memory SQLite store.  One stream
\* connection, which event_generator stands for; nothing is attached.
StoreIdle ==
    /\ backend = "sqlite"
    /\ appender = <<>>
    /\ attaches = <<>>
    /\ db = <<>>

\* A new session: the ledger is empty.
InitWith(starts) == InitSession(starts, {<<>>})

\* One /evaluate/start request is accepted; a client is reading the stream.
Init == InitWith(1) /\ consumer = "connected" /\ ReevalIdle /\ WebIdle /\ JobsIdle /\ StoreIdle

\* Several /evaluate/start requests are accepted.
InitStart == InitWith(MaxStarts) /\ consumer = "connected" /\ ReevalIdle /\ WebIdle /\ JobsIdle /\ StoreIdle

-----------------------------------------------------------------------------
(* routes/evaluate.py: POST /evaluate/start *)

\* line 24: the request is refused when the session read says "evaluating".
RouteAccepts(s) == ~s.is_evaluating

FreeRun(r) == pc[r] = "none" /\ \A q \in Runs : q < r => pc[q] # "none"

\* The request passes the check; start_evaluation is left to a new task.
StartLoanEvaluation ==
    /\ budget > 0
    /\ RouteAccepts(GetSession)
    /\ \E r \in Runs : FreeRun(r) /\ pc' = [pc EXCEPT ![r] = "task"]
    /\ budget' = budget - 1
    /\ UNCHANGED <<consumer, reevalVars, webVars, jobVars, storeVars>>
    /\ UNCHANGED <<is_evaluating, pending_tasks, text_content_dict, evidence_list,
                   evidence_queue, npushed, stream, rejected, session, running,
                   done_q, cur, last_taken, raised, yielded>>

\* HTTP 400 "Evaluation already in progress": nothing is started.
StartLoanEvaluationRejected ==
    /\ rejected < MaxRejects
    /\ ~RouteAccepts(GetSession)
    /\ rejected' = rejected + 1
    /\ UNCHANGED <<consumer, reevalVars, webVars, jobVars, storeVars>>
    /\ UNCHANGED <<is_evaluating, pending_tasks, text_content_dict, evidence_list,
                   evidence_queue, npushed, stream, budget, pc, session, running,
                   done_q, cur, last_taken, raised, yielded>>

-----------------------------------------------------------------------------
(* services/evaluation/main_evaluator.py: start_evaluation *)

\* len(all_tasks) for a session copy s: [ml_task] + web_tasks + llm_tasks
NumTasks(s) == 1 + NumWebSlots + Cardinality(s.text_content_dict)

\* line 14: session = await session_service.get_session(session_id)
StartEvaluation_GetSession(r) ==
    /\ pc[r] = "task"
    /\ session' = [session EXCEPT ![r] = GetSession]
    /\ pc' = [pc EXCEPT ![r] = "init"]
    /\ UNCHANGED <<consumer, reevalVars, webVars, jobVars, storeVars>>
    /\ UNCHANGED <<is_evaluating, pending_tasks, text_content_dict, evidence_list,
                   evidence_queue, npushed, stream, budget, rejected, running,
                   done_q, cur, last_taken, raised, yielded>>

\* line 19: await session_service.start_evaluation(session_id)
StartEvaluation_Init(r) ==
    /\ pc[r] = "init"
    /\ is_evaluating' = SvcStartEvaluation
    /\ pc' = [pc EXCEPT ![r] = "mark"]
    /\ UNCHANGED <<consumer, reevalVars, webVars, jobVars, storeVars>>
    /\ UNCHANGED <<pending_tasks, text_content_dict, evidence_list,
                   evidence_queue, npushed, stream, budget, rejected, session,
                   running, done_q, cur, last_taken, raised, yielded>>

\* lines 21-29: the evaluation_start marker is pushed
StartEvaluation_PushStart(r) ==
    /\ pc[r] = "mark"
    /\ evidence_queue' = PushEvidenceToStream(evidence_queue, Tag(StartEvent, r, "none"))
    /\ npushed' = npushed + 1
    /\ pc' = [pc EXCEPT ![r] = "spawn"]
    /\ UNCHANGED <<consumer, reevalVars, webVars, jobVars, storeVars>>
    /\ UNCHANGED <<is_evaluating, pending_tasks, text_content_dict, evidence_list,
                   stream, budget, rejected, session, running, done_q, cur, last_taken, raised, yielded>>

\* lines 31-45 and 80: the tasks are created, pending_tasks is set on the
\* session copy of line 14, and process_tasks is started.
StartEvaluation_Spawn(r) ==
    /\ pc[r] = "spawn"
    /\ running' = [running EXCEPT ![r] =
                      [k \in Kinds |-> CASE k = "ml"  -> 1
                                         [] k = "web" -> NumWebSlots
                                         [] k = "llm" -> Cardinality(session[r].text_content_dict)]]
    /\ session' = [session EXCEPT ![r].pending_tasks = NumTasks(session[r])]
    /\ pc' = [pc EXCEPT ![r] = "loop"]
    /\ UNCHANGED <<consumer, reevalVars, webVars, jobVars, storeVars>>
    /\ UNCHANGED <<is_evaluating, pending_tasks, text_content_dict, evidence_list,
                   evidence_queue, npushed, stream, budget, rejected, done_q, cur,
                   last_taken, raised, yielded>>

-----------------------------------------------------------------------------
(* The tasks of all_tasks *)

Spawned(r) == pc[r] \in {"loop", "push", "finish", "done", "crashed"}

NumRunning(r) == running[r]["ml"] + running[r]["web"] + running[r]["llm"]

\* Completion index of the next task of run r to complete.
NextSeq(r) == NumTasks(session[r]) - NumRunning(r) + 1

\* Text jobs that do not wait for the ML task.
CanCompleteUnordered(r, kind) == Spawned(r) /\ running[r][kind] > 0

\* llm_evaluate_loan first gathers its upstream tasks ([ml_task]).
CanComplete(r, kind) ==
    /\ Spawned(r)
    /\ running[r][kind] > 0
    /\ kind = "llm" => running[r]["ml"] = 0

\* A task of all_tasks completes; as_completed queues its future.
JobCompletes(r, kind) ==
    /\ CanComplete(r, kind)
    /\ running' = [running EXCEPT ![r][kind] = @ - 1]
    /\ done_q' = [done_q EXCEPT ![r] = Append(@, [kind |-> kind, seq |-> NextSeq(r)])]
    /\ UNCHANGED <<consumer, reevalVars, webVars, jobVars, storeVars>>
    /\ UNCHANGED <<is_evaluating, pending_tasks, text_content_dict, evidence_list,
                   evidence_queue, npushed, stream, budget, rejected, pc, session,
                   cur, last_taken, raised, yielded>>

-----------------------------------------------------------------------------
(* process_tasks: the fan-in loop *)

\* A loop that takes the most recently completed future first.
NextCompletedNewest(q) == Len(q)

\* asyncio.as_completed yields the futures in the order they completed.
NextCompleted(q) == 1

\* A loop that ends as soon as no completed future is waiting.
AsCompletedNothingReady(r) == done_q[r] = <<>>

\* as_completed is exhausted once every task of all_tasks was yielded.
AsCompletedExhausted(r) == NumRunning(r) = 0 /\ done_q[r] = <<>>

Without(q, i) == [j \in 1..(Len(q) - 1) |-> IF j < i THEN q[j] ELSE q[j + 1]]

Copies(n, x) == [i \in 1..n |-> x]

\* ml_evaluate_loan returns one EvaluationEvidence; llm_evaluate_loan and
\* _execute_web_task return a list.
ResultSizes(kind) == IF kind = "ml" THEN {1} ELSE 0..MaxItems

\* lines 51-58: result = await future; every item of the result is pushed
ProcessTasks_Await(r, n) ==
    /\ pc[r] = "loop"
    /\ done_q[r] # <<>>
    /\ LET i   == NextCompleted(done_q[r])
           fut == done_q[r][i]
       IN  /\ n \in ResultSizes(fut.kind)
           /\ done_q' = [done_q EXCEPT ![r] = Without(@, i)]
           /\ last_taken' = [last_taken EXCEPT ![r] = fut.seq]
           /\ cur' = [cur EXCEPT ![r] = Copies(n, Tag(JobEvidence(fut.kind), r, fut.kind))]
           /\ pc' = [pc EXCEPT ![r] = IF n = 0 THEN "loop" ELSE "push"]
    /\ yielded' = [yielded EXCEPT ![r] = @ + n]
    /\ UNCHANGED <<consumer, reevalVars, webVars, jobVars, storeVars>>
    /\ UNCHANGED <<is_evaluating, pending_tasks, text_content_dict, evidence_list,
                   evidence_queue, npushed, stream, budget, rejected, session,
                   running, raised>>

\* lines 51 and 60-66: await future raises; the except branch builds the
\* error evidence and pushes it, unless building it raises in turn.
ProcessTasks_AwaitRaises(r) ==
    /\ pc[r] = "loop"
    /\ done_q[r] # <<>>
    /\ LET i   == NextCompleted(done_q[r])
           fut == done_q[r][i]
       IN  /\ done_q' = [done_q EXCEPT ![r] = Without(@, i)]
           /\ last_taken' = [last_taken EXCEPT ![r] = fut.seq]
           /\ IF IsEvidence(ErrorEvidence)
              THEN /\ cur' = [cur EXCEPT ![r] = <<Tag(ErrorEvidence, r, fut.kind)>>]
                   /\ pc' = [pc EXCEPT ![r] = "push"]
              ELSE /\ cur' = cur
                   /\ pc' = [pc EXCEPT ![r] = "crashed"]
    /\ raised' = [raised EXCEPT ![r] = @ + 1]
    /\ yielded' = [yielded EXCEPT ![r] = @ + 1]
    /\ UNCHANGED <<consumer, reevalVars, webVars, jobVars, storeVars>>
    /\ UNCHANGED <<is_evaluating, pending_tasks, text_content_dict, evidence_list,
                   evidence_queue, npushed, stream, budget, rejected, session,
                   running>>

\* lines 56, 58, 66: await session_service.push_evidence_to_stream(...)
ProcessTasks_Push(r) ==
    /\ pc[r] = "push"
    /\ evidence_queue' = PushEvidenceToStream(evidence_queue, Head(cur[r]))
    /\ npushed' = npushed + 1
    /\ cur' = [cur EXCEPT ![r] = Tail(@)]
    /\ pc' = [pc EXCEPT ![r] = IF Tail(cur[r]) = <<>> THEN "loop" ELSE "push"]
    /\ UNCHANGED <<consumer, reevalVars, webVars, jobVars, storeVars>>
    /\ UNCHANGED <<is_evaluating, pending_tasks, text_content_dict, evidence_list,
                   stream, budget, rejected, session, running, done_q, last_taken, raised, yielded>>

\* lines 68-76: the evaluation_complete marker
ProcessTasks_Complete(r) ==
    /\ pc[r] = "loop"
    /\ AsCompletedExhausted(r)
    /\ evidence_queue' = PushEvidenceToStream(evidence_queue,
                             Tag(CompletionEvent, r, "none"))
    /\ npushed' = npushed + 1
    /\ pc' = [pc EXCEPT ![r] = "finish"]
    /\ UNCHANGED <<consumer, reevalVars, webVars, jobVars, storeVars>>
    /\ UNCHANGED <<is_evaluating, pending_tasks, text_content_dict, evidence_list,
                   stream, budget, rejected, session, running, done_q, cur, last_taken, raised, yielded>>

\* line 77: await session_service.finish_evaluation(session_id)
ProcessTasks_Finish(r) ==
    /\ pc[r] = "finish"
    /\ is_evaluating' = SvcFinishEvaluation.is_evaluating
    /\ pending_tasks' = SvcFinishEvaluation.pending_tasks
    /\ pc' = [pc EXCEPT ![r] = "done"]
    /\ UNCHANGED <<consumer, reevalVars, webVars, jobVars, storeVars>>
    /\ UNCHANGED <<text_content_dict, evidence_list, evidence_queue, npushed,
                   stream, budget, rejected, session, running, done_q, cur, last_taken, raised, yielded>>

-----------------------------------------------------------------------------
(* routes/evaluate.py: POST /evaluate/stream, event_generator *)

\* asyncio.Queue.get(): the oldest record
QueueGet(q) == 1

\* A consumer that adds every record it dequeues.
ShouldAppendAlways(ev) == TRUE

\* line 51: only actual evidence is added to evidence_list
ShouldAppend(ev) == ev.event_type = "evidence"

\* A consumer that closes the stream once the run has completed.
StreamEndsAtComplete(ev) == ev.event_type = "evaluation_complete"

\* lines 54-57: after the yield the loop goes on, whatever the record was.
StreamEnds(ev) == FALSE

\* lines 48-54: one turn of the consumer loop
EventGenerator ==
    /\ consumer = "connected"
    /\ evidence_queue # <<>>
    /\ LET i  == QueueGet(evidence_queue)
           ev == evidence_queue[i]
       IN  /\ evidence_queue' = Without(evidence_queue, i)
           /\ evidence_list' = IF ShouldAppend(ev)
                               THEN AddEvidence(evidence_list, ev)
                               ELSE evidence_list
           /\ stream' = Append(stream, ev)
           /\ consumer' = IF StreamEnds(ev) THEN "ended" ELSE consumer
    /\ UNCHANGED <<reevalVars, webVars, jobVars, storeVars>>
    /\ UNCHANGED <<is_evaluating, pending_tasks, text_content_dict, npushed,
                   budget, rejected, pc, session, running, done_q, cur, last_taken, raised, yielded>>

\* The client closes the connection: EventSourceResponse cancels
\* event_generator.  Nothing else refers to the generator.
Disconnect ==
    /\ consumer = "connected"
    /\ consumer' = "disconnected"
    /\ UNCHANGED <<is_evaluating, pending_tasks, text_content_dict, evidence_list,
                   evidence_queue, npushed, stream, budget, rejected, pc, session,
                   running, done_q, cur, last_taken, raised, yielded>>
    /\ UNCHANGED <<reevalVars, webVars, jobVars, storeVars>>

-----------------------------------------------------------------------------
Next ==
    \/ StartLoanEvaluation
    \/ StartLoanEvaluationRejected
    \/ \E r \in Runs : StartEvaluation_GetSession(r)
    \/ \E r \in Runs : StartEvaluation_Init(r)
    \/ \E r \in Runs : StartEvaluation_PushStart(r)
    \/ \E r \in Runs : StartEvaluation_Spawn(r)
    \/ \E r \in Runs, k \in Kinds : JobCompletes(r, k)
    \/ \E r \in Runs, n \in 0..MaxItems : ProcessTasks_Await(r, n)
    \/ \E r \in Runs : ProcessTasks_AwaitRaises(r)
    \/ \E r \in Runs : ProcessTasks_Push(r)
    \/ \E r \in Runs : ProcessTasks_Complete(r)
    \/ \E r \in Runs : ProcessTasks_Finish(r)
    \/ EventGenerator

Spec == Init /\ [][Next]_vars

\* The start path alone, with several requests: the route, start_evaluation up
\* to the creation of process_tasks, and the stream consumer.
NextStart ==
    \/ StartLoanEvaluation
    \/ StartLoanEvaluationRejected
    \/ \E r \in Runs : StartEvaluation_GetSession(r)
    \/ \E r \in Runs : StartEvaluation_Init(r)
    \/ \E r \in Runs : StartEvaluation_PushStart(r)
    \/ \E r \in Runs : StartEvaluation_Spawn(r)
    \/ EventGenerator

SpecStart == InitStart /\ [][NextStart]_vars

\* One run whose client may close the stream at any time.
NextStream == Next \/ Disconnect

SpecStream == Init /\ [][NextStream]_vars

-----------------------------------------------------------------------------
(* web_evaluate storing the search text while the run goes on *)

\* snippets the web slots may store
MaxSaved == 1

\* session_service.save_text_content: the text is stored under a key the
\* snippet map does not hold yet.
SvcSaveTextContent(dict) == dict \cup {Cardinality(dict) + 1}

\* A run that creates a text job for a snippet saved while it is under way.
TasksForSavedSnippetOne(r) == 1

\* all_tasks is built once (line 44); nothing is added to it afterwards.
TasksForSavedSnippet(r) == 0

\* web_evaluate, lines 242-249: a web slot of run r saves its search text.
WebEvaluate_Save(r) ==
    /\ Spawned(r)
    /\ running[r]["web"] > 0
    /\ Cardinality(text_content_dict) < MaxSnippets + MaxSaved
    /\ text_content_dict' = SvcSaveTextContent(text_content_dict)
    /\ running' = [running EXCEPT ![r]["llm"] = @ + TasksForSavedSnippet(r)]
    /\ UNCHANGED <<is_evaluating, pending_tasks, evidence_list, evidence_queue,
                   npushed, stream, budget, rejected, pc, session, done_q, cur,
                   last_taken, raised, yielded, consumer>>
    /\ UNCHANGED <<reevalVars, webVars, jobVars, storeVars>>

\* One run whose web slots store search text; the queue is not read.
NextSnapshot ==
    \/ StartLoanEvaluation
    \/ \E r \in Runs : StartEvaluation_GetSession(r)
    \/ \E r \in Runs : StartEvaluation_Init(r)
    \/ \E r \in Runs : StartEvaluation_PushStart(r)
    \/ \E r \in Runs : StartEvaluation_Spawn(r)
    \/ \E r \in Runs, k \in Kinds : JobCompletes(r, k)
    \/ \E r \in Runs, n \in 0..MaxItems : ProcessTasks_Await(r, n)
    \/ \E r \in Runs : ProcessTasks_Push(r)
    \/ \E r \in Runs : ProcessTasks_Complete(r)
    \/ \E r \in Runs : ProcessTasks_Finish(r)
    \/ \E r \in Runs : WebEvaluate_Save(r)

SpecSnapshot == Init /\ [][NextSnapshot]_vars

-----------------------------------------------------------------------------
(* routes/evaluate.py: POST /evaluate/evidence/update, and                 *)
(* services/evaluation/reevaluate_invalidated.py                           *)

\* invalidation calls that find their evidence
MaxInvalidations == 2
\* invalidation calls answered 404
MaxNotFound == 1
\* ledger entries stored before the server started
MaxLedger == 1

Tasks == 1..MaxInvalidations

\* A key the snippet map does not hold.
DanglingKey == MaxSnippets + 1

Marker == "Reason: "

\* Invalidation reasons, as sequences of pieces of text; the marker is a piece
\* of its own.
Reasons == {<<"irrelevant">>, <<"User feedback: ", Marker, "wrong">>}

\* evidence_id of a request: the id the stored items have, and an unknown one
EvidenceIds == {0, 999}

\* Ledger entries found in the store: written by add_evidence, so with id 0.
StoredEvidence ==
    {[EvaluationEvidence([score |-> 2, description |-> d, citation |-> "quote",
                          source |-> "user_upload", text_content_key |-> k])
        EXCEPT !.id = 0] @@ [run |-> 0, kind |-> "stored", pno |-> 0] :
        d \in {"", "finding"}, k \in {NoKey, 1, DanglingKey}}

RECURSIVE Split(_)
\* str.split(Marker)
Split(s) ==
    IF \E i \in DOMAIN s : s[i] = Marker
    THEN LET i == CHOOSE j \in DOMAIN s :
                      s[j] = Marker /\ \A k \in 1..(j - 1) : s[k] # Marker
         IN  <<SubSeq(s, 1, i - 1)>> \o Split(SubSeq(s, i + 1, Len(s)))
    ELSE <<s>>

\* parts[k] of a Python list raises IndexError
IndexError(parts, k) == k + 1 > Len(parts)

\* line 96: original_evidence.invalidate_reason.split("Reason: ")[1] raises
ReasonRaises(original) == IndexError(Split(original.invalidate_reason), 1)

NoText == "none"

\* A context recovery that takes the description when no snippet is found.
OriginalTextOrDescription(sess, original) ==
    IF original.text_content_key # NoKey
       /\ original.text_content_key \in sess.text_content_dict
    THEN "text"
    ELSE IF original.description # "" THEN "description" ELSE NoText

\* lines 37-42: the text of the snippet the evidence refers to, if any
OriginalText(sess, original) ==
    IF original.text_content_key # NoKey
       /\ original.text_content_key \in sess.text_content_dict
    THEN "text"
    ELSE NoText

\* lines 46-52
CannotReevaluate ==
    EvaluationEvidence([score |-> 0, description |-> "Cannot re-evaluate",
                        citation |-> "", source |-> "Re-evaluation Error",
                        text_content_key |-> NoKey])

\* What rotating_llm.send_message_get_json can answer or do.
JudgeReplies ==
    {"failed", "exception", "reject", "accept_none", "accept_one", "accept_two"}

\* lines 105-156: the list the function returns for a reply of the judge
ReevalResult(original, reply) ==
    CASE reply = "reject" ->
            <<EvaluationEvidence([score |-> original.score,
                                  description |-> "Re-evaluation upheld original assessment",
                                  citation |-> original.citation,
                                  source |-> original.source,
                                  text_content_key |-> original.text_content_key])>>
      [] reply \in {"accept_one", "accept_two"} ->
            <<EvaluationEvidence([score |-> 0, description |-> "corrected",
                                  citation |-> "new quote",
                                  source |-> original.source,
                                  text_content_key |-> original.text_content_key])>>
      [] reply = "accept_none" ->
            <<EvaluationEvidence([score |-> 0,
                                  description |-> "Re-evaluation accepted invalidation",
                                  citation |-> "",
                                  source |-> original.source,
                                  text_content_key |-> original.text_content_key])>>
      [] reply = "failed" ->
            <<EvaluationEvidence([score |-> 0, description |-> "Failed to re-evaluate",
                                  citation |-> "", source |-> "Re-evaluation Error",
                                  text_content_key |-> NoKey])>>
      [] reply = "exception" ->
            <<EvaluationEvidence([score |-> 0, description |-> "Error during re-evaluation",
                                  citation |-> "", source |-> "Re-evaluation Error",
                                  text_content_key |-> NoKey])>>

\* Variables of the /evaluate/start route, start_evaluation and its tasks.
runVars == <<is_evaluating, pending_tasks, budget, rejected, pc, session, running,
             done_q, cur, last_taken, raised, yielded>>

\* session_service.update_evidence: the first ledger entry with the id, 0 if
\* there is none (ValueError).
FindEvidence(ledger, id) ==
    IF \E i \in DOMAIN ledger : ledger[i].id = id
    THEN CHOOSE i \in DOMAIN ledger :
             ledger[i].id = id /\ \A j \in 1..(i - 1) : ledger[j].id # id
    ELSE 0

\* An update that marks the first entry when the id is unknown.
SvcUpdateUnknownMarksFirst(ledger, reason) ==
    [ledger EXCEPT ![1].valid = FALSE, ![1].invalidate_reason = reason]

\* session_service.update_evidence for an id the ledger does not hold:
\* ValueError is raised before anything is written.
SvcUpdateUnknown(ledger, reason) == ledger

\* session_service.update_evidence with valid = False: the entry is marked
SvcUpdateEvidence(ledger, i, reason) ==
    [ledger EXCEPT ![i].valid = FALSE, ![i].invalidate_reason = reason]

NewTask(i, original) ==
    [pc |-> "start", idx |-> i, original |-> original, out |-> <<>>,
     judge_calls |-> 0, reply |-> "none", pno |-> 0]

\* update_evidence, lines 73-80: the entry is found and marked, and one
\* re-evaluation task is started for it.
UpdateEvidence(id, reason) ==
    /\ Len(reeval) < MaxInvalidations
    /\ FindEvidence(evidence_list, id) # 0
    /\ LET i == FindEvidence(evidence_list, id)
       IN  /\ evidence_list' = SvcUpdateEvidence(evidence_list, i, reason)
           /\ reeval' = Append(reeval, NewTask(i, evidence_list'[i]))
    /\ UNCHANGED <<text_content_dict, evidence_queue, npushed, stream, consumer,
                   notfound>>
    /\ UNCHANGED <<runVars, webVars, jobVars, storeVars>>

\* update_evidence, lines 81-82: ValueError becomes HTTP 404.
UpdateEvidenceNotFound(id, reason) ==
    /\ notfound < MaxNotFound
    /\ FindEvidence(evidence_list, id) = 0
    /\ evidence_list' = SvcUpdateUnknown(evidence_list, reason)
    /\ notfound' = notfound + 1
    /\ UNCHANGED <<text_content_dict, evidence_queue, npushed, stream, consumer,
                   reeval>>
    /\ UNCHANGED <<runVars, webVars, jobVars, storeVars>>

\* A re-evaluation that is bracketed like a run: it sets the evaluating flag
\* and counts itself as a pending task.
ReevalSessionBracketed(sess) ==
    [sess EXCEPT !.is_evaluating = TRUE, !.pending_tasks = @ + 1]

\* lines 13-156: the function reads session.text_content_dict and writes
\* nothing to the session; the flag and the counter stay as they are.
ReevalSession(sess) == sess

\* reevaluate_invalidated_evidence up to its first await (lines 37-101):
\* context recovery, the messages for the judge, the call of the judge.
Reevaluate_Start(t) ==
    /\ t \in DOMAIN reeval
    /\ reeval[t].pc = "start"
    /\ LET original == reeval[t].original
       IN  reeval' = [reeval EXCEPT ![t] =
               IF OriginalText(GetSession, original) = NoText
               THEN [@ EXCEPT !.pc = "push", !.out = <<CannotReevaluate>>]
               ELSE IF ReasonRaises(original)
               THEN [@ EXCEPT !.pc = "raised"]
               ELSE [@ EXCEPT !.pc = "judging", !.judge_calls = @ + 1]]
    /\ LET sess == ReevalSession(GetSession)
       IN  /\ is_evaluating' = sess.is_evaluating
           /\ pending_tasks' = sess.pending_tasks
    /\ UNCHANGED <<text_content_dict, evidence_list, evidence_queue, npushed,
                   stream, consumer, notfound>>
    /\ UNCHANGED <<budget, rejected, pc, session, running, done_q, cur,
                   last_taken, raised, yielded>>
    /\ UNCHANGED <<webVars, jobVars, storeVars>>

\* lines 101-156: the judge answers, the function returns its list.
Reevaluate_Judged(t, reply) ==
    /\ t \in DOMAIN reeval
    /\ reeval[t].pc = "judging"
    /\ reeval' = [reeval EXCEPT ![t].pc = "push", ![t].reply = reply,
                                ![t].out = ReevalResult(reeval[t].original, reply)]
    /\ UNCHANGED <<text_content_dict, evidence_list, evidence_queue, npushed,
                   stream, consumer, notfound>>
    /\ UNCHANGED <<runVars, webVars, jobVars, storeVars>>

\* The re-evaluation task pushes what the function returned.
Reevaluate_Push(t) ==
    /\ t \in DOMAIN reeval
    /\ reeval[t].pc = "push"
    /\ IF reeval[t].out = <<>>
       THEN /\ reeval' = [reeval EXCEPT ![t].pc = "done"]
            /\ UNCHANGED <<evidence_queue, npushed>>
       ELSE /\ evidence_queue' = PushEvidenceToStream(evidence_queue,
                                     Tag(Head(reeval[t].out), 0, "reeval"))
            /\ npushed' = npushed + 1
            /\ reeval' = [reeval EXCEPT
                             ![t].out = Tail(@),
                             ![t].pno = npushed + 1,
                             ![t].pc = IF Tail(reeval[t].out) = <<>>
                                       THEN "done" ELSE "push"]
    /\ UNCHANGED <<text_content_dict, evidence_list, stream, consumer, notfound>>
    /\ UNCHANGED <<runVars, webVars, jobVars, storeVars>>

ReevalNext ==
    \/ \E id \in EvidenceIds, reason \in Reasons : UpdateEvidence(id, reason)
    \/ \E id \in EvidenceIds, reason \in Reasons : UpdateEvidenceNotFound(id, reason)
    \/ \E t \in Tasks : Reevaluate_Start(t)
    \/ \E t \in Tasks, reply \in JudgeReplies : Reevaluate_Judged(t, reply)
    \/ \E t \in Tasks : Reevaluate_Push(t)

\* The first run of the session at the point where process_tasks has awaited
\* the five web slots, none of which returned evidence, and waits for the ML
\* job and the text jobs; the start marker is still in the queue.
RunUnderWay ==
    /\ is_evaluating = SvcStartEvaluation
    /\ pending_tasks = 0
    /\ evidence_queue = <<Tag(StartEvent, 1, "none") @@ [pno |-> 1]>>
    /\ npushed = 1
    /\ stream = <<>>
    /\ budget = 0
    /\ rejected = 0
    /\ pc = [r \in Runs |-> IF r = 1 THEN "loop" ELSE "none"]
    /\ session = [r \in Runs |->
                    IF r = 1
                    THEN [is_evaluating |-> FALSE,
                          pending_tasks |-> 1 + NumWebSlots + Cardinality(text_content_dict),
                          text_content_dict |-> text_content_dict]
                    ELSE [is_evaluating |-> FALSE, pending_tasks |-> 0,
                          text_content_dict |-> {}]]
    /\ running = [r \in Runs |->
                    [k \in Kinds |->
                        IF r = 1 /\ k = "ml" THEN 1
                        ELSE IF r = 1 /\ k = "llm" THEN Cardinality(text_content_dict)
                        ELSE 0]]
    /\ done_q = [r \in Runs |-> <<>>]
    /\ cur = [r \in Runs |-> <<>>]
    /\ last_taken = [r \in Runs |-> IF r = 1 THEN NumWebSlots ELSE 0]
    /\ raised = [r \in Runs |-> 0]
    /\ yielded = [r \in Runs |-> 0]
    /\ consumer = "connected"

\* A session whose store holds ledger entries of an earlier server life; no
\* run is started, invalidation calls arrive and a client reads the stream.
InitReeval ==
    /\ InitSession(0, UNION {[1..n -> StoredEvidence] : n \in 1..MaxLedger})
    /\ consumer = "connected"
    /\ ReevalIdle
    /\ WebIdle
    /\ JobsIdle
    /\ StoreIdle

NextReeval == EventGenerator \/ ReevalNext

SpecReeval == InitReeval /\ [][NextReeval]_vars

\* Ledger entries as this server writes them: no key, id 0.
RunEvidence ==
    {e \in StoredEvidence : e.text_content_key = NoKey /\ e.description # ""}

\* A session without snippets whose run is under way, with ledger entries of
\* earlier runs; invalidation calls arrive while the run comes to its end.
InitRunReeval ==
    /\ text_content_dict = {}
    /\ evidence_list \in UNION {[1..n -> RunEvidence] : n \in 1..MaxLedger}
    /\ RunUnderWay
    /\ ReevalIdle
    /\ WebIdle
    /\ JobsIdle
    /\ StoreIdle

\* The rest of the run, the stream consumer, and the invalidation calls; the
\* entries have no key, so no re-evaluation gets as far as the judge.
NextRunReeval ==
    \/ \E r \in Runs, k \in Kinds : JobCompletes(r, k)
    \/ \E r \in Runs, n \in 0..MaxItems : ProcessTasks_Await(r, n)
    \/ \E r \in Runs : ProcessTasks_Push(r)
    \/ \E r \in Runs : ProcessTasks_Complete(r)
    \/ \E r \in Runs : ProcessTasks_Finish(r)
    \/ EventGenerator
    \/ \E id \in EvidenceIds, reason \in Reasons : UpdateEvidence(id, reason)
    \/ \E id \in EvidenceIds, reason \in Reasons : UpdateEvidenceNotFound(id, reason)
    \/ \E t \in Tasks : Reevaluate_Start(t)
    \/ \E t \in Tasks : Reevaluate_Push(t)

SpecRunReeval == InitRunReeval /\ [][NextRunReeval]_vars

-----------------------------------------------------------------------------
(* services/evaluation/web_evaluator.py: _execute_web_task *)

\* longest query list the query task returns
MaxQueries == 2

Slots == 0..(NumWebSlots - 1)

\* An entry of the query list: a dict with a query, a dict whose query is
\* missing or empty, or something that is not a dict.
QueryItems ==
    {[dict |-> TRUE, query |-> "find"], [dict |-> TRUE, query |-> ""],
     [dict |-> FALSE, query |-> ""]}

\* What awaiting query_task gives: it raises, or it returns a list.
QueryTaskResults ==
    {[raised |-> TRUE, list |-> <<>>]} \cup
    {[raised |-> FALSE, list |-> l] :
        l \in UNION {[1..n -> QueryItems] : n \in 0..MaxQueries}}

\* What web_evaluate does for a query: it raises, or it returns n items.
WebEvaluateOutcomes ==
    {[raised |-> TRUE, n |-> 0]} \cup {[raised |-> FALSE, n |-> k] : k \in 0..MaxItems}

Returned(list) == [done |-> TRUE, raised |-> FALSE, value |-> list]

Raised == [done |-> TRUE, raised |-> TRUE, value |-> <<>>]

Pending == [done |-> FALSE, raised |-> FALSE, value |-> <<>>]

\* A slot that reports "no query" as an item of evidence.
FallThroughItem(index) == Returned(<<JobEvidence("web")>>)

\* line 166: return []
FallThrough(index) == Returned(<<>>)

\* lines 157-163: the body of the try block
ExecuteWebTask_Try(qt, index, outcome) ==
    IF qt.raised THEN Raised
    ELSE IF index < Len(qt.list)
    THEN LET item == qt.list[index + 1]
         IN  IF ~item.dict THEN Raised
             ELSE IF item.query # ""
             THEN IF outcome.raised THEN Raised
                  ELSE Returned(Copies(outcome.n, JobEvidence("web")))
             ELSE FallThrough(index)
    ELSE FallThrough(index)

\* A slot that lets what its body raised go up to the fan-in loop.
ExecuteWebTaskPropagates(qt, index, outcome) == ExecuteWebTask_Try(qt, index, outcome)

\* lines 155-166: except Exception swallows what the body raised
ExecuteWebTaskResult(qt, index, outcome) ==
    LET body == ExecuteWebTask_Try(qt, index, outcome)
    IN  IF body.raised THEN FallThrough(index) ELSE body

\* A slot that searches every entry of the list that has a query.
SearchedByAll(qt, index) ==
    IF qt.raised THEN <<>>
    ELSE SelectSeq([i \in DOMAIN qt.list |-> i - 1],
                   LAMBDA i : qt.list[i + 1].dict /\ qt.list[i + 1].query # "")

\* lines 158-163: the list indexes for which the slot calls web_evaluate:
\* queries[index], when the list is that long and the entry has a query
SearchedBy(qt, index) ==
    IF ~qt.raised /\ index < Len(qt.list)
       /\ qt.list[index + 1].dict /\ qt.list[index + 1].query # ""
    THEN <<index>>
    ELSE <<>>

\* query_task has run to its end: awaiting it gives its result at once.
QueryTaskDone == gen_calls # <<>>

\* A slot task runs to its end: it gets the result of query_task (line 157)
\* and returns.
ExecuteWebTask(index, outcome) ==
    /\ index \in DOMAIN slot_out
    /\ ~slot_out[index].done
    /\ QueryTaskDone
    /\ slot_seen' = [slot_seen EXCEPT ![index] = queries]
    /\ slot_out' = [slot_out EXCEPT ![index] =
                        ExecuteWebTaskResult(queries, index, outcome)
                            @@ [searched |-> SearchedBy(queries, index)]]
    /\ UNCHANGED <<queries, text_content_dict, evidence_list, evidence_queue,
                   npushed, stream, consumer>>
    /\ UNCHANGED <<gen_calls, web, verified, ml, llm>>
    /\ UNCHANGED <<runVars, reevalVars, storeVars>>

NotSeen == [raised |-> FALSE, list |-> <<"not awaited">>]

\* The five slots of generate_web_tasks over one query task that has run.
InitWeb ==
    /\ InitWith(0)
    /\ consumer = "connected"
    /\ ReevalIdle
    /\ StoreIdle
    /\ CallsIdle
    /\ queries \in QueryTaskResults
    /\ gen_calls = <<IF queries.raised THEN "no_profile" ELSE "ok">>
    /\ slot_seen = [i \in Slots |-> NotSeen]
    /\ slot_out = [i \in Slots |-> Pending]

NextWeb == \E i \in Slots, o \in WebEvaluateOutcomes : ExecuteWebTask(i, o)

SpecWeb == InitWeb /\ [][NextWeb]_vars

\* longest query list of a run whose list is longer than the slots are many
MaxLongList == 6

\* Query lists of well-formed entries, with or without a query, up to a
\* length that exceeds the number of slots.
LongLists ==
    UNION {[1..n -> {[dict |-> TRUE, query |-> "find"], [dict |-> TRUE, query |-> ""]}] :
              n \in 0..MaxLongList}

\* The five slots over a query task that returned a list of any length.
InitSlots ==
    /\ InitWith(0)
    /\ consumer = "connected"
    /\ ReevalIdle
    /\ StoreIdle
    /\ CallsIdle
    /\ queries \in {[raised |-> FALSE, list |-> l] : l \in LongLists}
    /\ gen_calls = <<"ok">>
    /\ slot_seen = [i \in Slots |-> NotSeen]
    /\ slot_out = [i \in Slots |-> Pending]

SpecSlots == InitSlots /\ [][NextWeb]_vars

-----------------------------------------------------------------------------
(* services/evaluation/web_evaluator.py: generate_web_tasks and              *)
(* _generate_queries, with the fan-in loop taking the slot futures           *)

QueryLists == UNION {[1..n -> QueryItems] : n \in 0..MaxQueries}

\* What rotating_llm.send_message_get_json does for the query prompt: it
\* raises, it answers with a status other than "ok", or it answers a list.
GenReplies ==
    {[status |-> "exception", list |-> <<>>], [status |-> "error", list |-> <<>>]}
    \cup {[status |-> "ok", list |-> l] : l \in QueryLists}

\* The way a run of _generate_queries takes through lines 103-152.
GenerateQueriesPath(sess, has_profile, reply) ==
    IF sess.text_content_dict = {} THEN "no_context"
    ELSE IF ~has_profile THEN "no_profile"
    ELSE IF reply.status = "exception" THEN "exception"
    ELSE IF reply.status # "ok" THEN "status_not_ok"
    ELSE "ok"

\* lines 103-152: what query_task ends with.  Line 108 is outside the try
\* block: without a profile the task raises.
GenerateQueriesResult(sess, has_profile, reply) ==
    LET path == GenerateQueriesPath(sess, has_profile, reply)
    IN  CASE path = "no_profile" -> [raised |-> TRUE, list |-> <<>>]
          [] path = "ok"         -> [raised |-> FALSE, list |-> reply.list]
          [] OTHER               -> [raised |-> FALSE, list |-> <<>>]

\* A query list that is computed again for a later consumer.
QueryTaskRerun == Len(gen_calls) < 2

\* line 170: one task is created for _generate_queries; its coroutine runs
\* once.
QueryTaskPending == gen_calls = <<>>

\* query_task runs _generate_queries.
GenerateQueries(has_profile, reply) ==
    /\ QueryTaskPending
    /\ queries' = GenerateQueriesResult(GetSession, has_profile, reply)
    /\ gen_calls' = Append(gen_calls, GenerateQueriesPath(GetSession, has_profile, reply))
    /\ UNCHANGED <<text_content_dict, evidence_list, evidence_queue, npushed,
                   stream, consumer, slot_out, slot_seen, web, verified, ml, llm>>
    /\ UNCHANGED <<runVars, reevalVars, storeVars>>

Taken(res) == res @@ [taken |-> TRUE]

IsTaken(res) == "taken" \in DOMAIN res

RECURSIVE PushAll(_, _, _)
\* main_evaluator.py lines 55-56: every item of the list is pushed in turn.
PushAll(q, items, n) ==
    IF items = <<>> THEN q
    ELSE PushAll(Append(q, Head(items) @@ [pno |-> n + 1]), Tail(items), n + 1)

\* What the fan-in loop pushes for a future (lines 50-66): the items of the
\* list, or the error evidence when awaiting the future raises.
FanInItems(res, kind) ==
    IF res.raised
    THEN IF IsEvidence(ErrorEvidence) THEN <<Tag(ErrorEvidence, 1, kind)>> ELSE <<>>
    ELSE [i \in DOMAIN res.value |-> Tag(res.value[i], 1, kind)]

\* Bookkeeping: the slot a pushed record came from.
FromSlot(items, index) == [i \in DOMAIN items |-> items[i] @@ [slot |-> index]]

\* process_tasks awaits the future of slot index and pushes its result.
ProcessTasks_AwaitSlot(index) ==
    /\ index \in DOMAIN slot_out
    /\ slot_out[index].done
    /\ ~IsTaken(slot_out[index])
    /\ LET items == FromSlot(FanInItems(slot_out[index], "web"), index)
       IN  /\ evidence_queue' = PushAll(evidence_queue, items, npushed)
           /\ npushed' = npushed + Len(items)
    /\ slot_out' = [slot_out EXCEPT ![index] = Taken(@)]
    /\ UNCHANGED <<text_content_dict, evidence_list, stream, consumer, queries>>
    /\ UNCHANGED <<jobVars, runVars, reevalVars, storeVars>>

\* generate_web_tasks has returned: query_task and the five slots are created,
\* none has run yet.
InitQuery ==
    /\ InitWith(0)
    /\ consumer = "connected"
    /\ ReevalIdle
    /\ StoreIdle
    /\ CallsIdle
    /\ queries = [raised |-> FALSE, list |-> <<>>]
    /\ gen_calls = <<>>
    /\ slot_seen = [i \in Slots |-> NotSeen]
    /\ slot_out = [i \in Slots |-> Pending]

NextQuery ==
    \/ \E p \in BOOLEAN, reply \in GenReplies : GenerateQueries(p, reply)
    \/ \E i \in Slots, o \in WebEvaluateOutcomes : ExecuteWebTask(i, o)
    \/ \E i \in Slots : ProcessTasks_AwaitSlot(i)

SpecQuery == InitQuery /\ [][NextQuery]_vars

-----------------------------------------------------------------------------
(* Text: snippets, search hits and citations, as the characters they hold *)

\* texts of user snippets and of search hits
Texts == {"a, B", "b"}

\* citations the judge may give: empty, a quote of "a, B" in another case and
\* punctuation, a text that is in no snippet, punctuation only
Citations == {"", "A b", "ba", "!"}

Chars(s) ==
    CASE s = ""     -> <<>>
      [] s = "a, B" -> <<"a", ",", " ", "B">>
      [] s = "b"    -> <<"b">>
      [] s = "A b"  -> <<"A", " ", "b">>
      [] s = "ba"   -> <<"b", "a">>
      [] s = "!"    -> <<"!">>

\* [a-zA-Z0-9]
IsAlnum(ch) == ch \in {"a", "b", "A", "B", "R"}

\* str.lower()
Lower(ch) ==
    CASE ch = "A" -> "a"
      [] ch = "B" -> "b"
      [] ch = "R" -> "r"
      [] OTHER    -> ch

\* re.sub(r'[^a-zA-Z0-9]', '', s).lower()
Normalise(s) ==
    LET kept == SelectSeq(s, IsAlnum)
    IN  [i \in DOMAIN kept |-> Lower(kept[i])]

\* needle in hay, for Python strings
Contains(hay, needle) ==
    \E i \in 0..(Len(hay) - Len(needle)) : SubSeq(hay, i + 1, i + Len(needle)) = needle

\* matcher1 in matcher2 (web_evaluator.py 259-265)
CitedIn(citation, text) == Contains(Normalise(text), Normalise(citation))

-----------------------------------------------------------------------------
(* services/evaluation/ml_evaluator.py: ml_evaluate_loan *)

\* probability of default, in percent
Probabilities == {0, 50, 100}

\* What predict_loan_status does: it raises, or it returns (prediction,
\* probability).
PredictOutcomes ==
    {[raised |-> TRUE, prediction |-> 0, probability |-> 0]} \cup
    {[raised |-> FALSE, prediction |-> c, probability |-> q] :
        c \in {0, 1}, q \in Probabilities}

\* lines 9-14
MlNoData ==
    EvaluationEvidence([score |-> 0,
                        description |-> "No loan application data provided",
                        citation |-> "", source |-> "Machine Learning Model"])

\* A scorer that lets the failure of the collaborator go up to its caller.
MlFailurePropagates(outcome) == Raised

\* lines 35-41: the failure cause is carried by the description
MlFailure(outcome) ==
    Returned(<<EvaluationEvidence([score |-> 0, description |-> "ML Inference Failed",
                                   citation |-> "",
                                   source |-> "Machine Learning Model"])>>)

\* lines 18-34: score = int((1 - prob_default) * 100)
MlScored(outcome) ==
    Returned(<<EvaluationEvidence(
                 [score |-> 100 - outcome.probability,
                  description |-> IF outcome.prediction = 1 THEN "High Risk"
                                                            ELSE "Low Risk",
                  citation |-> "", source |-> "Machine Learning Model"])>>)

\* lines 7-41: the one item the function returns
MlEvaluateResult(payload, outcome) ==
    IF ~payload THEN Returned(<<MlNoData>>)
    ELSE IF outcome.raised THEN MlFailure(outcome)
    ELSE MlScored(outcome)

\* line 18 is reached only with a payload
MlCollaboratorCalls(payload) == IF payload THEN 1 ELSE 0

\* ml_evaluate_loan runs to its end.
MlEvaluateLoan(outcome) ==
    /\ ml # <<>>
    /\ ml.pc = "start"
    /\ ml' = [ml EXCEPT !.pc = "done",
                        !.calls = MlCollaboratorCalls(ml.payload),
                        !.failed = ml.payload /\ outcome.raised,
                        !.result = MlEvaluateResult(ml.payload, outcome)]
    /\ UNCHANGED <<text_content_dict, evidence_list, evidence_queue, npushed,
                   stream, consumer, gen_calls, slot_seen, web, verified, llm>>
    /\ UNCHANGED <<runVars, reevalVars, webVars, storeVars>>

-----------------------------------------------------------------------------
(* services/evaluation/llm_evaluator.py: llm_evaluate_loan *)

\* What an upstream task ends with: one evidence, a list, or an exception.
UpstreamOutcomes == {"evidence", "list", "raised"}

\* What rotating_llm.send_message_get_json does for the evaluation prompt: it
\* raises, it answers with a status other than "ok", or it answers a list of
\* items, each with a citation.
LlmReplies ==
    {[status |-> "exception", evidence |-> <<>>], [status |-> "error", evidence |-> <<>>]}
    \cup {[status |-> "ok", evidence |-> l] :
            l \in UNION {[1..n -> Citations] : n \in 0..MaxItems}}

\* lines 79-111: the list the function returns for a reply of the judge; the
\* citation of an item is the one the judge gave.
LlmEvaluateResult(source, reply) ==
    CASE reply.status = "ok" ->
            [i \in DOMAIN reply.evidence |->
                EvaluationEvidence([score |-> 0, description |-> "finding",
                                    citation |-> reply.evidence[i],
                                    source |-> source])]
      [] reply.status = "exception" ->
            <<EvaluationEvidence([score |-> 0,
                                  description |-> "Error during LLM evaluation",
                                  citation |-> "", source |-> source])>>
      [] OTHER ->
            <<EvaluationEvidence([score |-> 0,
                                  description |-> "Failed to evaluate text",
                                  citation |-> "", source |-> source])>>

\* A gather that raises the exception of an upstream task.
GatherRaises(up) == up = "raised"

\* line 21: asyncio.gather(..., return_exceptions=True) hands an exception
\* over as a result; lines 23-26 skip it.
GatherFails(up) == FALSE

\* lines 22-26: the upstream evidence that becomes context
GatherContext(up) ==
    CASE up = "evidence" -> 1
      [] up = "list"     -> MaxItems
      [] OTHER           -> 0

\* lines 14-28: the upstream tasks are awaited.
LlmEvaluate_Gather(up) ==
    /\ llm # <<>>
    /\ llm.pc = "gather"
    /\ llm' = IF GatherFails(up)
              THEN [llm EXCEPT !.pc = "done", !.upstream = up, !.result = Raised]
              ELSE [llm EXCEPT !.pc = "judge", !.upstream = up,
                               !.context = GatherContext(up)]
    /\ UNCHANGED <<text_content_dict, evidence_list, evidence_queue, npushed,
                   stream, consumer, gen_calls, slot_seen, web, verified, ml>>
    /\ UNCHANGED <<runVars, reevalVars, webVars, storeVars>>

\* Bookkeeping: the text an item was judged from.
JudgedFrom(items, text) == [i \in DOMAIN items |-> items[i] @@ [judged |-> text]]

\* lines 79-111: the judge is called and the function returns.
LlmEvaluate_Judge(reply) ==
    /\ llm # <<>>
    /\ llm.pc = "judge"
    /\ llm' = [llm EXCEPT !.pc = "done",
                          !.judge_calls = @ + 1,
                          !.reply = reply,
                          !.result = Returned(JudgedFrom(
                                        LlmEvaluateResult("user_upload", reply),
                                        Chars(llm.text)))]
    /\ UNCHANGED <<text_content_dict, evidence_list, evidence_queue, npushed,
                   stream, consumer, gen_calls, slot_seen, web, verified, ml>>
    /\ UNCHANGED <<runVars, reevalVars, webVars, storeVars>>

\* process_tasks awaits the future of the text job and pushes its result.
ProcessTasks_AwaitText ==
    /\ llm # <<>>
    /\ llm.pc = "done"
    /\ LET items == FanInItems(llm.result, "llm")
       IN  /\ evidence_queue' = PushAll(evidence_queue, items, npushed)
           /\ npushed' = npushed + Len(items)
    /\ llm' = [llm EXCEPT !.pc = "taken"]
    /\ UNCHANGED <<text_content_dict, evidence_list, stream, consumer, gen_calls,
                   slot_seen, web, verified, ml>>
    /\ UNCHANGED <<runVars, reevalVars, webVars, storeVars>>

\* start_evaluation lines 32 and 41 have run: the ML job, with or without a
\* payload, and a text job over a snippet, given upstream tasks or none.
InitText ==
    /\ InitWith(0)
    /\ consumer = "connected"
    /\ ReevalIdle
    /\ WebIdle
    /\ StoreIdle
    /\ gen_calls = <<>>
    /\ slot_seen = <<>>
    /\ web = <<>>
    /\ verified = <<>>
    /\ \E payload \in BOOLEAN :
          ml = [pc |-> "start", payload |-> payload, calls |-> 0,
                failed |-> FALSE, result |-> Pending]
    /\ \E text \in Texts, tasks \in 0..1 :
          llm = [pc |-> IF tasks = 0 THEN "judge" ELSE "gather",
                 text |-> text, tasks |-> tasks, upstream |-> "pending",
                 context |-> 0, judge_calls |-> 0,
                 reply |-> [status |-> "none", evidence |-> <<>>],
                 result |-> Pending]

NextText ==
    \/ \E o \in PredictOutcomes : MlEvaluateLoan(o)
    \/ \E up \in UpstreamOutcomes : LlmEvaluate_Gather(up)
    \/ \E reply \in LlmReplies : LlmEvaluate_Judge(reply)
    \/ ProcessTasks_AwaitText
    \/ EventGenerator

SpecText == InitText /\ [][NextText]_vars

-----------------------------------------------------------------------------
(* services/evaluation/web_evaluator.py: web_evaluate and                    *)
(* _verify_search_results; services/session.py: add_text_content             *)

\* web_evaluate calls looked at
MaxWebCalls == 1
\* most hits a search returns
MaxResults == 2
\* longest list of indexes the verifier returns
MaxIndexes == 2
\* /session/attach requests
MaxAttaches == 1

WebCalls == 1..MaxWebCalls

\* What the search tool does: it raises, or it returns hits; a hit is known by
\* its content.
SearchOutcomes ==
    {[raised |-> TRUE, results |-> <<>>]} \cup
    {[raised |-> FALSE, results |-> l] :
        l \in UNION {[1..n -> Texts] : n \in 0..MaxResults}}

\* Index lists the verifier may give; MaxResults is outside every result list.
IndexLists == UNION {[1..n -> 0..MaxResults] : n \in 0..MaxIndexes}

\* What rotating_llm.send_message_get_json does for the verification prompt.
VerifyReplies ==
    {[status |-> "exception", valid_indexes |-> <<>>],
     [status |-> "error", valid_indexes |-> <<>>]}
    \cup {[status |-> "ok", valid_indexes |-> l] : l \in IndexLists}

\* A verifier that accepts every hit when the judge fails.
VerifyFailedAcceptsAll(results) == [i \in DOMAIN results |-> i - 1]

\* lines 93-99: "Conservative: reject all"
VerifyFailed(results) == <<>>

\* _verify_search_results, lines 30-99
VerifySearchResults(results, reply) ==
    IF results = <<>> THEN <<>>
    ELSE IF reply.status = "ok" THEN reply.valid_indexes
    ELSE VerifyFailed(results)

\* line 77 is reached only with results
VerifyJudgeCalls(results) == IF results = <<>> THEN 0 ELSE 1

\* line 230: [search_results[i] for i in valid_indexes if i < len(search_results)]
AcceptedHits(results, valid) ==
    LET inrange == SelectSeq(valid, LAMBDA i : i < Len(results))
    IN  [j \in DOMAIN inrange |-> results[inrange[j] + 1]]

RECURSIVE CombinedText(_)
\* lines 236-240: a header and the content of every hit
CombinedText(hits) ==
    IF hits = <<>> THEN <<>>
    ELSE <<"R", ":">> \o Chars(Head(hits)) \o CombinedText(Tail(hits))

\* lines 189-195
WebNoKey ==
    EvaluationEvidence([score |-> 0, description |-> "TAVILY_API_KEY not found",
                        citation |-> "", source |-> "web_search",
                        text_content_key |-> NoKey])

\* lines 221-227
WebNoMatch ==
    EvaluationEvidence([score |-> 0, description |-> "No exact match found on web",
                        citation |-> "", source |-> "web_search",
                        text_content_key |-> NoKey])

\* lines 254-269: an item is kept when it has a citation that is found in
\* the content of a hit; its source becomes the url of that hit.
FilterCited(evidences, hits) ==
    LET keep(e) == /\ e.citation # ""
                   /\ \E h \in DOMAIN hits : CitedIn(Chars(e.citation), Chars(hits[h]))
        kept == SelectSeq(evidences, keep)
    IN  [i \in DOMAIN kept |-> [kept[i] EXCEPT !.source = "url"]]

\* lines 187-233: the search and the verification pass
WebEvaluate_Search(k, has_key, search, has_profile, reply) ==
    /\ k \in DOMAIN web
    /\ web[k].pc = "start"
    /\ web' = [web EXCEPT ![k] =
          IF ~has_key
          THEN [@ EXCEPT !.pc = "done", !.result = Returned(<<WebNoKey>>)]
          ELSE IF search.raised \/ search.results = <<>>
          THEN [@ EXCEPT !.pc = "done", !.result = Returned(<<>>)]
          ELSE IF has_profile
          THEN LET valid == VerifySearchResults(search.results, reply)
               IN  IF valid = <<>>
                   THEN [@ EXCEPT !.pc = "done", !.verified = TRUE,
                                  !.result = Returned(<<WebNoMatch>>)]
                   ELSE [@ EXCEPT !.pc = "save", !.verified = TRUE,
                                  !.accepted = AcceptedHits(search.results, valid)]
          ELSE [@ EXCEPT !.pc = "save", !.accepted = search.results]]
    /\ UNCHANGED <<text_content_dict, evidence_list, evidence_queue, npushed,
                   stream, consumer, gen_calls, slot_seen, verified, ml, llm>>
    /\ UNCHANGED <<runVars, reevalVars, webVars, storeVars>>

\* lines 242-249: the combined text is stored in the snippet map
WebEvaluate_Store(k) ==
    /\ k \in DOMAIN web
    /\ web[k].pc = "save"
    /\ text_content_dict' = SvcSaveTextContent(text_content_dict)
    /\ attaches' = Append(attaches,
                      [by |-> "web", stored |-> TRUE,
                       key |-> Cardinality(text_content_dict) + 1])
    /\ web' = [web EXCEPT ![k].pc = "judge", ![k].saved = TRUE]
    /\ UNCHANGED <<evidence_list, evidence_queue, npushed, stream, consumer,
                   gen_calls, slot_seen, verified, ml, llm, backend, appender, db>>
    /\ UNCHANGED <<runVars, reevalVars, webVars>>

\* lines 251-271: the judgment over the combined text, and the citation check
WebEvaluate_Judge(k, reply) ==
    /\ k \in DOMAIN web
    /\ web[k].pc = "judge"
    /\ web' = [web EXCEPT
                 ![k].pc = "done",
                 ![k].judge_calls = @ + 1,
                 ![k].result = Returned(JudgedFrom(
                                  FilterCited(LlmEvaluateResult("web_search", reply),
                                              web[k].accepted),
                                  CombinedText(web[k].accepted)))]
    /\ UNCHANGED <<text_content_dict, evidence_list, evidence_queue, npushed,
                   stream, consumer, gen_calls, slot_seen, verified, ml, llm>>
    /\ UNCHANGED <<runVars, reevalVars, webVars, storeVars>>

\* process_tasks awaits the slot future of call k and pushes its result.
ProcessTasks_AwaitWeb(k) ==
    /\ k \in DOMAIN web
    /\ web[k].pc = "done"
    /\ LET items == FanInItems(web[k].result, "web")
       IN  /\ evidence_queue' = PushAll(evidence_queue, items, npushed)
           /\ npushed' = npushed + Len(items)
    /\ web' = [web EXCEPT ![k].pc = "taken"]
    /\ UNCHANGED <<text_content_dict, evidence_list, stream, consumer, gen_calls,
                   slot_seen, verified, ml, llm>>
    /\ UNCHANGED <<runVars, reevalVars, webVars, storeVars>>

\* add_text_content, lines 121-158: AppSession has no field text_content_list,
\* so line 145 raises AttributeError and the row is not written.
AddTextContentResult(dict, key) == [raised |-> TRUE, dict |-> dict]

\* POST /session/attach
AddTextContent(key) ==
    /\ Cardinality({i \in DOMAIN attaches : attaches[i].by = "user"}) < MaxAttaches
    /\ LET res == AddTextContentResult(text_content_dict, key)
       IN  /\ text_content_dict' = res.dict
           /\ attaches' = Append(attaches,
                             [by |-> "user", stored |-> ~res.raised, key |-> key])
    /\ UNCHANGED <<evidence_list, evidence_queue, npushed, stream, consumer,
                   backend, appender, db>>
    /\ UNCHANGED <<runVars, reevalVars, webVars, jobVars>>

\* Keys of /session/attach requests: one that is stored, one that is new.
AttachKeys == 1..(MaxSnippets + 1)

\* Slots of a run have got their queries, so the session holds a snippet;
\* web_evaluate is called.
InitWebEval ==
    /\ InitWith(0)
    /\ text_content_dict # {}
    /\ consumer = "connected"
    /\ ReevalIdle
    /\ WebIdle
    /\ StoreIdle
    /\ gen_calls = <<>>
    /\ slot_seen = <<>>
    /\ verified = <<>>
    /\ ml = <<>>
    /\ llm = <<>>
    /\ web = [k \in WebCalls |->
                [pc |-> "start", verified |-> FALSE, accepted |-> <<>>,
                 saved |-> FALSE, judge_calls |-> 0, result |-> Pending]]

NextWebEval ==
    \/ \E k \in WebCalls, has_key \in BOOLEAN, search \in SearchOutcomes,
          has_profile \in BOOLEAN, reply \in VerifyReplies :
            WebEvaluate_Search(k, has_key, search, has_profile, reply)
    \/ \E k \in WebCalls : WebEvaluate_Store(k)
    \/ \E k \in WebCalls, reply \in LlmReplies : WebEvaluate_Judge(k, reply)
    \/ \E k \in WebCalls : ProcessTasks_AwaitWeb(k)
    \/ \E key \in AttachKeys : AddTextContent(key)
    \/ EventGenerator

SpecWebEval == InitWebEval /\ [][NextWebEval]_vars

-----------------------------------------------------------------------------
(* _verify_search_results called twice on the same hits with a judge         *)
(* stand-in that gives the same reply to the same prompt                     *)

\* One call of _verify_search_results.
VerifyCall ==
    /\ verified # <<>>
    /\ Len(verified.out) < 2
    /\ verified' = [verified EXCEPT
                      !.out = Append(@, VerifySearchResults(verified.results,
                                                            verified.reply)),
                      !.judge_calls = @ + VerifyJudgeCalls(verified.results)]
    /\ UNCHANGED <<text_content_dict, evidence_list, evidence_queue, npushed,
                   stream, consumer, gen_calls, slot_seen, web, ml, llm>>
    /\ UNCHANGED <<runVars, reevalVars, webVars, storeVars>>

InitVerify ==
    /\ InitWith(0)
    /\ consumer = "connected"
    /\ ReevalIdle
    /\ WebIdle
    /\ StoreIdle
    /\ gen_calls = <<>>
    /\ slot_seen = <<>>
    /\ web = <<>>
    /\ ml = <<>>
    /\ llm = <<>>
    /\ \E search \in SearchOutcomes, reply \in VerifyReplies :
          verified = [results |-> search.results, reply |-> reply,
                      out |-> <<>>, judge_calls |-> 0]

NextVerify == VerifyCall

SpecVerify == InitVerify /\ [][NextVerify]_vars

-----------------------------------------------------------------------------
(* services/session.py: add_evidence called from several stream connections  *)
(* of one session; database.py: the connection the calls work on             *)

\* /evaluate/stream connections of the session
MaxConsumers == 2

Consumers == 1..MaxConsumers

Backends == {"sqlite", "postgres"}

AppenderIdle == [pc |-> "idle", ev |-> <<>>, copy |-> <<>>]

\* add_evidence, lines 168-171: only the Postgres query locks the row (FOR
\* UPDATE); _SQLitePoolWrapper.connection hands the one shared connection to
\* every caller and holds no lock.
RowFree(c) ==
    backend = "postgres" => \A d \in Consumers \ {c} : appender[d].pc # "fetched"

\* event_generator of connection c, lines 48-54: it takes the oldest record;
\* a marker is yielded at once, evidence goes to add_evidence first.
Stream_Get(c) ==
    /\ appender[c].pc = "idle"
    /\ evidence_queue # <<>>
    /\ LET i  == QueueGet(evidence_queue)
           ev == evidence_queue[i]
       IN  /\ evidence_queue' = Without(evidence_queue, i)
           /\ IF ShouldAppend(ev)
              THEN /\ appender' = [appender EXCEPT ![c].pc = "got", ![c].ev = ev]
                   /\ stream' = stream
              ELSE /\ appender' = appender
                   /\ stream' = Append(stream, ev)
    /\ UNCHANGED <<text_content_dict, evidence_list, npushed, consumer, backend,
                   attaches, db>>
    /\ UNCHANGED <<runVars, reevalVars, webVars, jobVars>>

\* add_evidence, lines 164-180: the row is read and deserialised
AddEvidence_Fetch(c) ==
    /\ appender[c].pc = "got"
    /\ RowFree(c)
    /\ appender' = [appender EXCEPT ![c].pc = "fetched", ![c].copy = evidence_list]
    /\ UNCHANGED <<text_content_dict, evidence_list, evidence_queue, npushed,
                   stream, consumer, backend, attaches, db>>
    /\ UNCHANGED <<runVars, reevalVars, webVars, jobVars>>

\* add_evidence, lines 183-192: the item is appended to the copy and the copy
\* is written back; event_generator then yields the record (line 54).
AddEvidence_Save(c) ==
    /\ appender[c].pc = "fetched"
    /\ evidence_list' = AddEvidence(appender[c].copy, appender[c].ev)
    /\ stream' = Append(stream, appender[c].ev)
    /\ appender' = [appender EXCEPT ![c] = AppenderIdle]
    /\ UNCHANGED <<text_content_dict, evidence_queue, npushed, consumer, backend,
                   attaches, db>>
    /\ UNCHANGED <<runVars, reevalVars, webVars, jobVars>>

\* The run of the session is under way and several clients read its stream.
InitAppend ==
    /\ text_content_dict \in {1..n : n \in 0..MaxSnippets}
    /\ evidence_list = <<>>
    /\ RunUnderWay
    /\ ReevalIdle
    /\ WebIdle
    /\ JobsIdle
    /\ backend \in Backends
    /\ appender = [c \in Consumers |-> AppenderIdle]
    /\ attaches = <<>>
    /\ db = <<>>

NextAppend ==
    \/ \E r \in Runs, k \in Kinds : JobCompletes(r, k)
    \/ \E r \in Runs, n \in 0..MaxItems : ProcessTasks_Await(r, n)
    \/ \E r \in Runs : ProcessTasks_Push(r)
    \/ \E r \in Runs : ProcessTasks_Complete(r)
    \/ \E r \in Runs : ProcessTasks_Finish(r)
    \/ \E c \in Consumers : Stream_Get(c)
    \/ \E c \in Consumers : AddEvidence_Fetch(c)
    \/ \E c \in Consumers : AddEvidence_Save(c)

SpecAppend == InitAppend /\ [][NextAppend]_vars

-----------------------------------------------------------------------------
(* database.py: get_async_db_pool and _SQLitePoolWrapper, DATABASE_URL unset *)

\* tasks that use the session store at the same time
MaxCallers == 2

\* session operations of one task
MaxRequests == 2

Callers == 1..MaxCallers

\* self._conn is None
NoConn == 0

CallerIdle ==
    [pc |-> "idle", op |-> "none", stage |-> "none", held |-> NoConn,
     want |-> [sid |-> 0, tok |-> <<0, 0>>], result |-> "none", n |-> 0]

\* get_async_db_connection up to its first suspension. get_async_db_pool,
\* lines 85-91: a global that is set is returned, else the wrapper is stored
\* in the global and open() is awaited. connection(), lines 50-52: open() is
\* awaited when self._conn is not set, else self._conn is yielded.
Acquire(d, c) ==
    IF ~d.pool
    THEN [d EXCEPT !.pool = TRUE, !.task[c].pc = "opening"]
    ELSE IF d.conn = NoConn
    THEN [d EXCEPT !.task[c].pc = "opening"]
    ELSE [d EXCEPT !.task[c].pc = "held", !.task[c].held = d.conn]

\* Sessions that a create_session call has returned to its client.
Created(d) == {[sid |-> r.sid, tok |-> r.tok] : r \in d.rows}

\* A handler calls create_session or get_session for a session a client was
\* given; the first statement of either that suspends is the one above.
Request(c, op, want) ==
    /\ db.task[c].pc = "idle"
    /\ db.task[c].n < MaxRequests
    /\ \/ op = "create" /\ want = [sid |-> 0, tok |-> <<c, db.task[c].n>>]
       \/ op = "get" /\ want \in Created(db)
    /\ db' = Acquire([db EXCEPT !.task[c] =
                         [pc |-> "acquire", op |-> op,
                          stage |-> IF op = "create" THEN "ensure" ELSE "select",
                          held |-> NoConn, want |-> want, result |-> "none",
                          n |-> db.task[c].n + 1]], c)
    /\ UNCHANGED <<text_content_dict, evidence_list, evidence_queue, npushed,
                   stream, consumer, backend, appender, attaches>>
    /\ UNCHANGED <<runVars, reevalVars, webVars, jobVars>>

\* open(), line 38: aiosqlite.connect(":memory:") returns a connection to a
\* new, empty database and it is stored in self._conn; the caller then
\* yields self._conn (line 52).
Open(c) ==
    /\ db.task[c].pc = "opening"
    /\ db' = [db EXCEPT !.opened = @ + 1,
                        !.conn = db.opened + 1,
                        !.task[c].pc = "held",
                        !.task[c].held = db.opened + 1]
    /\ UNCHANGED <<text_content_dict, evidence_list, evidence_queue, npushed,
                   stream, consumer, backend, appender, attaches>>
    /\ UNCHANGED <<runVars, reevalVars, webVars, jobVars>>

\* AUTOINCREMENT: the next session_id of the database behind a connection
NewId(d, conn) == Cardinality({r \in d.rows : r.conn = conn}) + 1

\* The statements of the async with block, on the connection it was given.
\* ensure_table_exists (services/session.py 48-51) creates the table and
\* create_session goes on to its second block (65-84), which inserts the
\* row; get_session (100-114) selects the row by its id.
Execute(c) ==
    /\ db.task[c].pc = "held"
    /\ LET me   == db.task[c]
           hits == {r \in db.rows : r.conn = me.held /\ r.sid = me.want.sid}
       IN  db' =
             CASE me.stage = "ensure" ->
                    Acquire([db EXCEPT !.tables = @ \cup {me.held},
                                       !.task[c].stage = "insert"], c)
               [] me.stage = "insert" ->
                    IF me.held \in db.tables
                    THEN [db EXCEPT
                            !.rows = @ \cup {[conn |-> me.held,
                                              sid |-> NewId(db, me.held),
                                              tok |-> me.want.tok]},
                            !.task[c].pc = "idle", !.task[c].result = "created"]
                    ELSE [db EXCEPT !.task[c].pc = "idle",
                                    !.task[c].result = "raised"]
               [] OTHER ->
                    [db EXCEPT
                        !.task[c].pc = "idle",
                        !.task[c].result =
                            IF me.held \notin db.tables THEN "raised"
                            ELSE IF hits = {} THEN "missing"
                            ELSE IF \E r \in hits : r.tok = me.want.tok
                            THEN "found" ELSE "other"]
    /\ UNCHANGED <<text_content_dict, evidence_list, evidence_queue, npushed,
                   stream, consumer, backend, appender, attaches>>
    /\ UNCHANGED <<runVars, reevalVars, webVars, jobVars>>

\* The process has just started: no pool, no connection, no session.
InitPool ==
    /\ InitWith(0)
    /\ consumer = "connected"
    /\ ReevalIdle
    /\ WebIdle
    /\ JobsIdle
    /\ backend = "sqlite"
    /\ appender = <<>>
    /\ attaches = <<>>
    /\ db = [pool |-> FALSE, conn |-> NoConn, opened |-> 0, tables |-> {},
             rows |-> {}, task |-> [c \in Callers |-> CallerIdle]]

\* What a request can ask for: a new session, or a session by id and owner.
Wants == [sid : 0..(MaxCallers * MaxRequests), tok : Callers \X (0..MaxRequests)]

NextPool ==
    \/ \E c \in Callers, op \in {"create", "get"}, want \in Wants : Request(c, op, want)
    \/ \E c \in Callers : Open(c)
    \/ \E c \in Callers : Execute(c)

SpecPool == InitPool /\ [][NextPool]_vars

-----------------------------------------------------------------------------
(* routes/session.py: update_session, reset_session                         *)

\* requests to /session/update and /session/reset
MaxResets == 1

\* update_session and reset_session, lines 33-39 and 43-48: the session is
\* a copy that get_session built from the row; assigning text_content_list
\* to it is refused by the model class (no such field), and no statement of
\* either handler writes the row. The stored ledger is what it was.
RouteLedger(ledger) == ledger

\* POST /session/update
UpdateSession ==
    /\ Cardinality({i \in DOMAIN attaches : attaches[i].by = "update"}) < MaxResets
    /\ evidence_list' = RouteLedger(evidence_list)
    /\ attaches' = Append(attaches, [by |-> "update", stored |-> FALSE, key |-> NoKey])
    /\ UNCHANGED <<text_content_dict, evidence_queue, npushed, stream, consumer,
                   backend, appender, db>>
    /\ UNCHANGED <<runVars, reevalVars, webVars, jobVars>>

\* POST /session/reset
ResetSession ==
    /\ Cardinality({i \in DOMAIN attaches : attaches[i].by = "reset"}) < MaxResets
    /\ evidence_list' = RouteLedger(evidence_list)
    /\ attaches' = Append(attaches, [by |-> "reset", stored |-> FALSE, key |-> NoKey])
    /\ UNCHANGED <<text_content_dict, evidence_queue, npushed, stream, consumer,
                   backend, appender, db>>
    /\ UNCHANGED <<runVars, reevalVars, webVars, jobVars>>

\* The run of a session without snippets is under way; clients read its
\* stream, invalidate entries, and call the /session routes.
InitLedger ==
    /\ text_content_dict = {}
    /\ InitAppend

NextLedger ==
    \/ NextAppend
    \/ \E id \in EvidenceIds, reason \in Reasons : UpdateEvidence(id, reason)
    \/ \E t \in Tasks : Reevaluate_Start(t)
    \/ \E t \in Tasks : Reevaluate_Push(t)
    \/ \E key \in AttachKeys : AddTextContent(key)
    \/ UpdateSession
    \/ ResetSession

SpecLedger == InitLedger /\ [][NextLedger]_vars

-----------------------------------------------------------------------------
(* Properties *)

Range(q) == {q[i] : i \in DOMAIN q}

\* Every record put on the queue so far, delivered or not.
AllPushed == Range(stream) \cup Range(evidence_queue)

PushedBy(r) == {x \in AllPushed : x.run = r}

EvidenceOf(r) == {x \in PushedBy(r) : x.event_type = "evidence"}

\* Futures of run r that process_tasks has awaited so far.
NumTaken(r) == NumTasks(session[r]) - NumRunning(r) - Len(done_q[r])

LedgerEntriesOf(r) == {i \in DOMAIN evidence_list : evidence_list[i].run = r}

FanInRunning(r) == pc[r] \in {"loop", "push", "finish"}

FanInStep(r) ==
    \/ \E n \in 0..MaxItems : ProcessTasks_Await(r, n)
    \/ ProcessTasks_AwaitRaises(r)
    \/ ProcessTasks_Push(r)
    \/ ProcessTasks_Complete(r)
    \/ ProcessTasks_Finish(r)

C4_Bracketed ==
    \A r \in Runs :
        /\ \A e \in EvidenceOf(r) :
              \E s \in PushedBy(r) : s.event_type = "evaluation_start" /\ s.pno < e.pno
        /\ \A c \in PushedBy(r) :
              c.event_type = "evaluation_complete" =>
                  /\ \A e \in EvidenceOf(r) : e.pno < c.pno
                  /\ NumRunning(r) = 0 /\ done_q[r] = <<>> /\ cur[r] = <<>>

C4_Witness ==
    \E r \in Runs :
        /\ \E c \in PushedBy(r) : c.event_type = "evaluation_complete"
        /\ Cardinality(EvidenceOf(r)) >= 2

\* C5: once all jobs of a run have resolved, the run goes on until it has
\* pushed the evaluation_complete marker and cleared is_evaluating and
\* pending_tasks; it never stops before that.
C5_RunCompletes ==
    \A r \in Runs :
        (Spawned(r) /\ NumRunning(r) = 0) =>
            \/ ENABLED FanInStep(r)
            \/ /\ pc[r] = "done"
               /\ \E c \in PushedBy(r) : c.event_type = "evaluation_complete"
               /\ ~is_evaluating
               /\ pending_tasks = 0

\* C6: every raising job the loop has awaited has become exactly one
\* "System Error" item, and the loop is still alive for the sibling jobs.
C6_RaiseBecomesErrorItem ==
    \A r \in Runs :
        /\ Cardinality({x \in PushedBy(r) : x.source = "System Error"})
             + Cardinality({i \in DOMAIN cur[r] : cur[r][i].source = "System Error"})
           = raised[r]
        /\ pc[r] # "crashed"

\* C7: every ledger entry has event_type "evidence"; markers are only streamed.
C7_LedgerHoldsOnlyEvidence ==
    \A i \in DOMAIN evidence_list : evidence_list[i].event_type = "evidence"

C7_Witness ==
    /\ \E i \in DOMAIN stream : stream[i].event_type = "evaluation_complete"
    /\ \E i \in DOMAIN stream : stream[i].event_type = "evaluation_start"
    /\ Len(evidence_list) >= 2

\* C8: records leave the queue in the order they were pushed, and the k-th
\* future whose evidence the loop pushes is the k-th future that completed.
C8_DeliveryOrder ==
    /\ \A i \in DOMAIN stream : stream[i].pno = i
    /\ \A r \in Runs : Spawned(r) => last_taken[r] = NumTaken(r)

\* Evidence of a web slot is delivered before the evidence of the ML job,
\* which was submitted first.
C8_Witness ==
    \E i, j \in DOMAIN stream :
        /\ i < j
        /\ stream[i].run = stream[j].run
        /\ stream[i].event_type = "evidence" /\ stream[i].kind = "web"
        /\ stream[j].event_type = "evidence" /\ stream[j].kind = "ml"

\* C9: when the fan-in loop starts, 1 + s + N jobs are running and the
\* pending_tasks of the session equals that number.
C9_PendingCount ==
    \A r \in Runs :
        (pc[r] = "loop" /\ NumTaken(r) = 0 /\ done_q[r] = <<>>) =>
            /\ NumRunning(r) = 1 + Cardinality(session[r].text_content_dict) + NumWebSlots
            /\ pending_tasks = NumRunning(r)

TextJobsLeft(r) ==
    running[r]["llm"] + Cardinality({i \in DOMAIN done_q[r] : done_q[r][i].kind = "llm"})

\* C13: the jobs of a run are those created from the snapshot of line 14; a
\* snippet stored later adds no job to the run.
C13_SnapshotFixesTextJobs ==
    \A r \in Runs :
        Spawned(r) =>
            /\ NumRunning(r) + Len(done_q[r]) + last_taken[r]
                 = 1 + NumWebSlots + Cardinality(session[r].text_content_dict)
            /\ TextJobsLeft(r) <= Cardinality(session[r].text_content_dict)
            /\ session[r].text_content_dict \subseteq text_content_dict

\* A run has finished and the snippet map holds a snippet its snapshot lacks.
C13_Witness ==
    \E r \in Runs :
        /\ pc[r] = "done"
        /\ text_content_dict # session[r].text_content_dict

C16_EmptyVerdictAddsNothing ==
    \A t \in DOMAIN reeval :
        reeval[t].reply = "accept_none" =>
            reeval[t].out = <<>> /\ reeval[t].pno = 0

\* The evidence of task t has a key that the snippet map does not hold.
KeyUnresolved(t) ==
    /\ reeval[t].original.text_content_key # NoKey
    /\ reeval[t].original.text_content_key \notin text_content_dict

\* The record task t has pushed.
PushedByTask(t) == {x \in AllPushed : x.pno = reeval[t].pno}

\* C17: a re-evaluation whose evidence has a key that does not resolve ends
\* with the "cannot re-evaluate" item, and the judge is never called.
C17_UnresolvedKeyIsTerminal ==
    \A t \in DOMAIN reeval :
        (KeyUnresolved(t) /\ reeval[t].pc # "start") =>
            /\ reeval[t].judge_calls = 0
            /\ reeval[t].pc \in {"push", "done"}
            /\ reeval[t].pc = "push" => reeval[t].out = <<CannotReevaluate>>
            /\ reeval[t].pc = "done" =>
                  \A x \in PushedByTask(t) : x.source = "Re-evaluation Error"

C17_Witness ==
    \E t \in DOMAIN reeval :
        /\ KeyUnresolved(t)
        /\ reeval[t].original.description # ""
        /\ reeval[t].pc = "done"
        /\ \E i \in DOMAIN stream : stream[i].pno = reeval[t].pno

\* C18: a re-evaluation whose evidence has no key but a non-empty description
\* does not end in the terminal "cannot re-evaluate" item.
C18_FallsBackToDescription ==
    \A t \in DOMAIN reeval :
        (/\ reeval[t].original.text_content_key = NoKey
         /\ reeval[t].original.description # ""
         /\ reeval[t].pc # "start") =>
            /\ reeval[t].out # <<CannotReevaluate>>
            /\ \A x \in PushedByTask(t) : x.source # "Re-evaluation Error"

C20_OutOfRangeSlotIsEmpty ==
    \A i \in DOMAIN slot_out :
        (slot_out[i].done /\ i >= Len(queries.list)) =>
            ~slot_out[i].raised /\ slot_out[i].value = <<>>

\* All slots are done over a list shorter than the number of slots, one slot
\* in range has returned evidence.
C20_Witness ==
    /\ Len(queries.list) > 0
    /\ \A i \in DOMAIN slot_out : slot_out[i].done
    /\ \E i \in DOMAIN slot_out : slot_out[i].value # <<>>

\* C21: the query list is generated once, and every slot that has awaited
\* the query task got the one result the task ended with.
C21_QueriesGeneratedOnce ==
    /\ Len(gen_calls) <= 1
    /\ \A i \in DOMAIN slot_out : slot_out[i].done => slot_seen[i] = queries

\* All slots have run over a generated list with at least one entry.
C21_Witness ==
    /\ gen_calls = <<"ok">>
    /\ queries.list # <<>>
    /\ slot_seen # <<>>
    /\ \A i \in DOMAIN slot_out : slot_out[i].done /\ slot_seen[i].list # <<>>

GenerationFailed ==
    gen_calls # <<>> /\ gen_calls[1] \in {"status_not_ok", "exception", "no_profile"}

C23_EveryJobYieldsARecord ==
    \A i \in DOMAIN slot_out :
        IsTaken(slot_out[i]) =>
            \E x \in Range(evidence_queue) : x.kind = "web" /\ x.slot = i

\* C24: the citation of every ledger entry is, without case and without the
\* characters that are not letters or digits, a part of the text the entry
\* was judged from.
C24_LedgerCitationsAreQuotes ==
    \A i \in DOMAIN evidence_list :
        "judged" \in DOMAIN evidence_list[i] =>
            CitedIn(Chars(evidence_list[i].citation), evidence_list[i].judged)

\* C27: ModelScorer returns exactly one item and does not raise; without a
\* payload the item has score 0 and the collaborator was not called; when the
\* collaborator failed the item has score 0 and says so.
C27_ScorerAlwaysOneItem ==
    (ml # <<>> /\ ml.pc = "done") =>
        /\ ~ml.result.raised
        /\ Len(ml.result.value) = 1
        /\ IsEvidence(ml.result.value[1])
        /\ ~ml.payload => /\ ml.calls = 0
                          /\ ml.result.value[1] = MlNoData
        /\ ml.failed => /\ ml.result.value[1].score = 0
                        /\ ml.result.value[1].description = "ML Inference Failed"

\* The collaborator was called and failed.
C27_Witness == ml # <<>> /\ ml.pc = "done" /\ ml.failed /\ ml.calls = 1

\* C28: the text job judges only after its upstream tasks have resolved, and
\* when an upstream task raised it still calls the judge once and returns the
\* result of its own judgment.
C28_UpstreamFailureTolerated ==
    llm # <<>> =>
        /\ (llm.tasks > 0 /\ llm.pc \in {"judge", "done", "taken"}) =>
              llm.upstream # "pending"
        /\ llm.pc \in {"done", "taken"} =>
              /\ ~llm.result.raised
              /\ llm.judge_calls = 1
              /\ llm.result.value =
                    JudgedFrom(LlmEvaluateResult("user_upload", llm.reply), Chars(llm.text))

\* The upstream task raised and the text job has returned evidence.
C28_Witness ==
    /\ llm # <<>>
    /\ llm.pc = "done"
    /\ llm.upstream = "raised"
    /\ llm.reply.status = "ok"
    /\ llm.result.value # <<>>

\* C25: every attach that has completed has stored its snippet, under a key
\* of its own that the snippet map holds.
C25_AttachNeverLoses ==
    /\ \A i \in DOMAIN attaches :
          attaches[i].stored /\ attaches[i].key \in text_content_dict
    /\ \A i, j \in DOMAIN attaches :
          (i # j /\ attaches[i].stored /\ attaches[j].stored) =>
              attaches[i].key # attaches[j].key

\* C29: when the verification pass has accepted no hit, the call ends with
\* the one "no match" item, has stored no snippet and has not called the
\* judge.
C29_NoAcceptedHitShortCircuits ==
    \A k \in DOMAIN web :
        (web[k].verified /\ web[k].accepted = <<>>) =>
            /\ web[k].pc \in {"done", "taken"}
            /\ web[k].result = Returned(<<WebNoMatch>>)
            /\ ~web[k].saved
            /\ web[k].judge_calls = 0

C26_NoAppendIsLost ==
    \A i \in DOMAIN stream :
        stream[i].event_type = "evidence" =>
            \E j \in DOMAIN evidence_list : evidence_list[j].pno = stream[i].pno

\* C31: every re-evaluation ends by returning a list to its task, whatever
\* the invalidation reason is; none ends by raising out of the task.
C31_ReevaluationNeverRaises ==
    \A t \in DOMAIN reeval : reeval[t].pc # "raised"

\* Keys under which web slots saved their search text.
WebSavedKeys == {attaches[i].key : i \in {j \in DOMAIN attaches : attaches[j].by = "web"}}

\* C32: an evidence item a web slot produced from stored search text carries
\* the key under which the text was saved, so that the context lookup of a
\* later re-evaluation finds its snippet.
C32_WebEvidenceCarriesKey ==
    \A x \in AllPushed \cup Range(evidence_list) :
        (x.kind = "web" /\ x.source = "url") =>
            /\ x.text_content_key \in WebSavedKeys
            /\ OriginalText(GetSession, x) # NoText

\* C33: a re-evaluation task is not part of the run: no step of it changes
\* the evaluating flag or the pending count, whenever it is taken.
C33_ReevaluationLeavesRunState ==
    [][reeval' # reeval =>
          /\ is_evaluating' = is_evaluating
          /\ pending_tasks' = pending_tasks
          /\ pc' = pc
          /\ session' = session]_vars

\* A re-evaluation result was pushed between the markers of a run, and the
\* run has come to its end since.
C33_Witness ==
    /\ \E i, j, k \in DOMAIN stream :
          /\ i < j /\ j < k
          /\ stream[i].event_type = "evaluation_start"
          /\ stream[j].kind = "reeval"
          /\ stream[k].event_type = "evaluation_complete"
    /\ \E r \in Runs : pc[r] = "done"
    /\ ~is_evaluating

\* Ledger positions of the entries that re-evaluation tasks produced.
Replacements == {i \in DOMAIN evidence_list : evidence_list[i].kind = "reeval"}

Unmarked(e) == [e EXCEPT !.valid = TRUE, !.invalidate_reason = <<>>]

\* ledger a is a prefix of ledger b, up to valid and invalidate_reason
IsPrefixOf(a, b) ==
    /\ Len(a) <= Len(b)
    /\ \A i \in DOMAIN a : Unmarked(a[i]) = Unmarked(b[i])

\* C35: the ledger is append-only: whatever operation is taken, the ledger
\* before it is a prefix of the ledger after it, up to the validity fields.
C35_LedgerAppendOnly == [][IsPrefixOf(evidence_list, evidence_list')]_vars

\* C36: in every run the evidence of the ML job is pushed before the
\* evidence of any text job over a user snippet: no text job's future is
\* taken while the ML job is running or its future is waiting.
C36_ScorerBeforeTextAnalyzers ==
    /\ \A x, y \in AllPushed :
          (/\ x.run = y.run
           /\ x.event_type = "evidence" /\ x.kind = "ml"
           /\ y.event_type = "evidence" /\ y.kind = "llm") => x.pno < y.pno
    /\ \A r \in Runs :
          (\E y \in PushedBy(r) : y.kind = "llm") =>
              /\ running[r]["ml"] = 0
              /\ \A i \in DOMAIN done_q[r] : done_q[r][i].kind # "ml"

\* The ML item of a run was pushed, then the item of a text job, and the
\* item of a web slot after both: the slots are ordered with neither.
C36_Witness ==
    \E x, y, z \in AllPushed :
        /\ x.pno < y.pno /\ y.pno < z.pno
        /\ x.run = y.run /\ y.run = z.run
        /\ x.event_type = "evidence" /\ x.kind = "ml"
        /\ y.event_type = "evidence" /\ y.kind = "llm"
        /\ z.event_type = "evidence" /\ z.kind = "web"

\* Slots that called web_evaluate for entry i of the query list.
SlotsSearching(i) ==
    {s \in DOMAIN slot_out :
        slot_out[s].done /\ \E k \in DOMAIN slot_out[s].searched :
                                slot_out[s].searched[k] = i}

\* C37: entry i of the query list is searched by slot i and by no other
\* slot, at most once, and an entry at an index no slot has is searched by
\* no slot; when all slots have run, every entry below min(L, N) that has
\* a query was searched.
C37_OneSlotPerQuery ==
    /\ \A s \in DOMAIN slot_out :
          slot_out[s].done => Len(slot_out[s].searched) <= 1
    /\ \A i \in 0..(Len(queries.list) - 1) :
          /\ SlotsSearching(i) \subseteq {i}
          /\ i >= NumWebSlots => SlotsSearching(i) = {}
          /\ (/\ \A s \in DOMAIN slot_out : slot_out[s].done
              /\ i < NumWebSlots
              /\ queries.list[i + 1].query # "") => SlotsSearching(i) = {i}

\* All slots have run over a list that is longer than the slots are many and
\* whose entries all have a query.
C37_Witness ==
    /\ Len(queries.list) > NumWebSlots
    /\ \A i \in DOMAIN queries.list : queries.list[i].query # ""
    /\ \A s \in DOMAIN slot_out : slot_out[s].done /\ slot_out[s].searched = <<s>>

\* C38: with the SQLite fallback the connection is opened at most once in
\* the life of the process, every operation is given that connection, and a
\* read of a session that create_session returned finds that session.
C38_OneSharedConnection ==
    /\ db.opened <= 1
    /\ \A c \in DOMAIN db.task :
          /\ db.task[c].held # NoConn => db.task[c].held = db.conn
          /\ (db.task[c].op = "get" /\ db.task[c].pc = "idle") =>
                db.task[c].result = "found"

====
